---------------------------- MODULE Spec2Model ----------------------------
(***************************************************************************)
(* Contrast checker: the contrast engine of main.go (report handler "/",   *)
(* CSV export handler "/download") and of the JSON variant (hard-coded     *)
(* palettes, handler "/all-contrasts").                                    *)
(*                                                                         *)
(* Go strings are sequences of one-character strings.  float64 values are  *)
(* fixed-point integers: a linearised channel in units of 1/100000, a      *)
(* relative luminance in units of 1/1000000, a contrast ratio in units of  *)
(* 1/1000 (rounded down), a stored ContrastRatio in units of 1/100.        *)
(***************************************************************************)
EXTENDS Integers, Sequences, FiniteSets, TLC

VARIABLES
    colors,       \* colors.json: [readable, Light, Dark], each palette name -> hex
    csvFile,      \* contrast_results.csv on disk: [bytes, rows]
    request,      \* the last request served by main.go
    response,     \* what that request produced
    jsonResponse, \* what the JSON variant's handler produced last
    ratioIn,      \* a ratio handed to the two level functions
    levelOut,     \* their answers
    hexIn,        \* a string handed to relativeLuminance
    lumOut,       \* its answer
    pairIn,       \* two colors handed to contrastRatio, in both source files
    ratioOut,     \* the answers, in both argument orders
    inflight      \* the requests main.go serves concurrently, each with its position

vars == <<colors, csvFile, request, response, jsonResponse, ratioIn, levelOut, hexIn, lumOut, pairIn, ratioOut, inflight>>

---------------------------------------------------------------------------
(* Bounds of the model. *)

MaxPalette == 2

MaxRatio == 21000

MaxHexLen == 7

MaxDefaults == 3

MaxRequests == 3

MaxSteps == 5

MaxInflight == 2

---------------------------------------------------------------------------
(* Bytes and strings. *)

\* The bytes the model uses, in ascending byte value.
Bytes ==
    << "#", "+", "-",
       "0", "1", "2", "3", "4", "5", "6", "7", "8", "9",
       "A", "B", "C", "D", "E", "F", "G", "H", "I", "J", "K", "L", "M",
       "N", "O", "P", "Q", "R", "S", "T", "U", "V", "W", "X", "Y", "Z",
       "a", "b", "c", "d", "e", "f", "g", "h", "i", "j", "k", "l", "m",
       "n", "o", "p", "q", "r", "s", "t", "u", "v", "w", "x", "y", "z" >>

ByteSet ==
    {Bytes[i] : i \in 1..Len(Bytes)}

ByteValues ==
    [c \in ByteSet |-> CHOOSE i \in 1..Len(Bytes) : Bytes[i] = c]

ByteValue(c) ==
    ByteValues[c]

UpperLetters ==
    << "A", "B", "C", "D", "E", "F", "G", "H", "I", "J", "K", "L", "M",
       "N", "O", "P", "Q", "R", "S", "T", "U", "V", "W", "X", "Y", "Z" >>

LowerLetters ==
    << "a", "b", "c", "d", "e", "f", "g", "h", "i", "j", "k", "l", "m",
       "n", "o", "p", "q", "r", "s", "t", "u", "v", "w", "x", "y", "z" >>

LowerOf ==
    [c \in {UpperLetters[i] : i \in 1..Len(UpperLetters)} |->
        LowerLetters[CHOOSE i \in 1..Len(UpperLetters) : UpperLetters[i] = c]]

UpperOf ==
    [c \in {LowerLetters[i] : i \in 1..Len(LowerLetters)} |->
        UpperLetters[CHOOSE i \in 1..Len(LowerLetters) : LowerLetters[i] = c]]

lowerByte(c) ==
    IF c \in DOMAIN LowerOf THEN LowerOf[c] ELSE c

upperByte(c) ==
    IF c \in DOMAIN UpperOf THEN UpperOf[c] ELSE c

\* strings.ToLower
ToLower(s) ==
    [i \in 1..Len(s) |-> lowerByte(s[i])]

\* strings.ToUpper
ToUpper(s) ==
    [i \in 1..Len(s) |-> upperByte(s[i])]

\* strings.Contains
Contains(s, substr) ==
    \E i \in 0..(Len(s) - Len(substr)) :
        \A k \in 1..Len(substr) : s[i + k] = substr[k]

\* strings.TrimPrefix(s, "#")
TrimPrefix(s) ==
    IF Len(s) >= 1 /\ s[1] = "#" THEN Tail(s) ELSE s

\* Go's < on strings: byte-wise lexicographic order.
StringLess(a, b) ==
    \E i \in 1..(Len(a) + 1) :
        /\ \A k \in 1..(i - 1) : k <= Len(b) /\ a[k] = b[k]
        /\ \/ i = Len(a) + 1 /\ Len(b) >= i
           \/ i <= Len(a) /\ i <= Len(b) /\ ByteValue(a[i]) < ByteValue(b[i])

\* Insert name x into the ascending sequence s.
RECURSIVE SortedInsert(_, _)
SortedInsert(s, x) ==
    IF s = <<>> THEN <<x>>
    ELSE IF StringLess(x, Head(s)) THEN <<x>> \o s
    ELSE <<Head(s)>> \o SortedInsert(Tail(s), x)

RECURSIVE SortFrom(_, _)
SortFrom(s, acc) ==
    IF s = <<>> THEN acc ELSE SortFrom(Tail(s), SortedInsert(acc, Head(s)))

\* A sort that leaves the slice as the map iteration produced it.
SortStringsSkipped(names) ==
    names

\* sort.Strings
SortStrings(names) ==
    SortFrom(names, <<>>)

---------------------------------------------------------------------------
(* Hex parsing, luminance, contrast ratio, levels. *)

\* The level strings, and the filter value "FAIL".
AAA == << "A", "A", "A" >>

AA == << "A", "A" >>

Fail == << "F", "a", "i", "l" >>

FAIL == << "F", "A", "I", "L" >>

HexDigits ==
    << "0", "1", "2", "3", "4", "5", "6", "7", "8", "9", "a", "b", "c", "d", "e", "f" >>

\* The value of each hexadecimal digit, lower case.
DigitValues ==
    [c \in {HexDigits[i] : i \in 1..Len(HexDigits)} |->
        (CHOOSE i \in 1..Len(HexDigits) : HexDigits[i] = c) - 1]

IsHexDigit(c) ==
    lowerByte(c) \in DOMAIN DigitValues

DigitValue(c) ==
    DigitValues[lowerByte(c)]

\* strconv.ParseUint(s, 16, 64) on a string too short to overflow.
RECURSIVE ParseUintFrom(_, _)
ParseUintFrom(s, acc) ==
    IF s = <<>> THEN acc ELSE ParseUintFrom(Tail(s), acc * 16 + DigitValue(Head(s)))

\* strconv.ParseInt(h, 16, 64): an optional sign, then one or more hex digits.
parseHex(h) ==
    IF h = <<>> THEN [err |-> TRUE, val |-> 0]
    ELSE LET signed == h[1] \in {"+", "-"}
             digits == IF signed THEN Tail(h) ELSE h
         IN  IF digits = <<>> \/ \E i \in 1..Len(digits) : ~IsHexDigit(digits[i])
             THEN [err |-> TRUE, val |-> 0]
             ELSE [err |-> FALSE,
                   val |-> IF h[1] = "-" THEN 0 - ParseUintFrom(digits, 0)
                           ELSE ParseUintFrom(digits, 0)]

\* math.Pow((c/255 + 0.055)/1.055, 2.4) for c = 0..255, in units of 1/100000.
PowTable ==
    << 0, 30, 61, 91, 121, 152, 182, 212, 243, 273, 304, 335, 368, 402, 439, 478,
       518, 561, 605, 651, 700, 750, 802, 857, 913, 972, 1033, 1096, 1161, 1229, 1298, 1370,
       1444, 1521, 1600, 1681, 1764, 1850, 1938, 2029, 2122, 2217, 2315, 2416, 2519, 2624, 2732, 2843,
       2956, 3071, 3190, 3310, 3434, 3560, 3689, 3820, 3955, 4092, 4231, 4374, 4519, 4667, 4817, 4971,
       5127, 5286, 5448, 5613, 5781, 5951, 6125, 6301, 6480, 6663, 6848, 7036, 7227, 7421, 7619, 7819,
       8022, 8228, 8438, 8650, 8866, 9084, 9306, 9531, 9759, 9990, 10224, 10462, 10702, 10946, 11193, 11444,
       11697, 11954, 12214, 12477, 12744, 13014, 13287, 13563, 13843, 14126, 14413, 14703, 14996, 15293, 15593, 15896,
       16203, 16513, 16827, 17144, 17465, 17789, 18116, 18447, 18782, 19120, 19462, 19807, 20156, 20508, 20864, 21223,
       21586, 21953, 22323, 22697, 23074, 23455, 23840, 24228, 24620, 25016, 25415, 25818, 26225, 26636, 27050, 27468,
       27889, 28315, 28744, 29177, 29614, 30054, 30499, 30947, 31399, 31855, 32314, 32778, 33245, 33716, 34191, 34670,
       35153, 35640, 36131, 36625, 37124, 37626, 38133, 38643, 39157, 39676, 40198, 40724, 41254, 41789, 42327, 42869,
       43415, 43966, 44520, 45079, 45641, 46208, 46778, 47353, 47932, 48515, 49102, 49693, 50289, 50888, 51492, 52100,
       52712, 53328, 53948, 54572, 55201, 55834, 56471, 57112, 57758, 58408, 59062, 59720, 60383, 61050, 61721, 62396,
       63076, 63760, 64448, 65141, 65837, 66539, 67244, 67954, 68669, 69387, 70110, 70838, 71569, 72306, 73046, 73791,
       74540, 75294, 76052, 76815, 77582, 78354, 79130, 79910, 80695, 81485, 82279, 83077, 83880, 84687, 85499, 86316,
       87137, 87962, 88792, 89627, 90466, 91310, 92158, 93011, 93869, 94731, 95597, 96469, 97345, 98225, 99110, 100000 >>

\* toLinear(float64(c) / 255.0) for a parsed channel c (-255..255).
toLinear(c) ==
    IF c * 100000 <= 3928 * 255
    THEN (c * 10000000) \div 329460
    ELSE PowTable[c + 1]

LuminanceError ==
    [err |-> TRUE, lum |-> 0, r |-> 0, g |-> 0, b |-> 0]

\* relativeLuminance summing the three linear channels without their weights.
LuminanceOfChannelsUnweighted(r, g, b) ==
    IF r.err \/ g.err \/ b.err THEN LuminanceError
    ELSE [err |-> FALSE,
          lum |-> 10 * (toLinear(r.val) + toLinear(g.val) + toLinear(b.val)),
          r   |-> r.val, g |-> g.val, b |-> b.val]

\* relativeLuminance once the three groups are parsed: [err, lum, r, g, b]
LuminanceOfChannels(r, g, b) ==
    IF r.err \/ g.err \/ b.err THEN LuminanceError
    ELSE [err |-> FALSE,
          lum |-> (2126 * toLinear(r.val) + 7152 * toLinear(g.val)
                   + 722 * toLinear(b.val)) \div 1000,
          r |-> r.val, g |-> g.val, b |-> b.val]

\* relativeLuminance after hex = strings.TrimPrefix(hex, "#")
LuminanceOfTrimmed(hex) ==
    IF Len(hex) # 6 THEN LuminanceError
    ELSE LuminanceOfChannels(parseHex(SubSeq(hex, 1, 2)),
                             parseHex(SubSeq(hex, 3, 4)),
                             parseHex(SubSeq(hex, 5, 6)))

\* relativeLuminance: [err, lum, r, g, b]
relativeLuminance(hex) ==
    LuminanceOfTrimmed(TrimPrefix(hex))

\* contrastRatio with the foreground always in the numerator.
RatioOfLuminancesUnordered(fg, bg) ==
    IF fg.err \/ bg.err THEN [err |-> TRUE, ratio |-> 0]
    ELSE [err |-> FALSE, ratio |-> ((fg.lum + 50000) * 1000) \div (bg.lum + 50000)]

\* contrastRatio with 0.005 for the 0.05 of the denominator.
RatioOfLuminancesNarrowOffset(fg, bg) ==
    IF fg.err \/ bg.err THEN [err |-> TRUE, ratio |-> 0]
    ELSE LET L1 == IF fg.lum >= bg.lum THEN fg.lum ELSE bg.lum
             L2 == IF fg.lum >= bg.lum THEN bg.lum ELSE fg.lum
         IN  [err |-> FALSE, ratio |-> ((L1 + 50000) * 1000) \div (L2 + 5000)]

\* contrastRatio with 0.5 for both 0.05.
RatioOfLuminancesWideOffset(fg, bg) ==
    IF fg.err \/ bg.err THEN [err |-> TRUE, ratio |-> 0]
    ELSE LET L1 == IF fg.lum >= bg.lum THEN fg.lum ELSE bg.lum
             L2 == IF fg.lum >= bg.lum THEN bg.lum ELSE fg.lum
         IN  [err |-> FALSE, ratio |-> ((L1 + 500000) * 1000) \div (L2 + 500000)]

\* contrastRatio once both luminances are known: [err, ratio]
RatioOfLuminances(fg, bg) ==
    IF fg.err \/ bg.err THEN [err |-> TRUE, ratio |-> 0]
    ELSE LET L1 == IF fg.lum >= bg.lum THEN fg.lum ELSE bg.lum
             L2 == IF fg.lum >= bg.lum THEN bg.lum ELSE fg.lum
         IN  [err |-> FALSE, ratio |-> ((L1 + 50000) * 1000) \div (L2 + 50000)]

\* contrastRatio: [err, ratio]
contrastRatio(fgHex, bgHex) ==
    RatioOfLuminances(relativeLuminance(fgHex), relativeLuminance(bgHex))

\* Small-text levels with the labels of the two passing branches exchanged.
complianceLevelSwappedLabels(ratio) ==
    IF ratio >= 7000 THEN AA
    ELSE IF ratio >= 4500 THEN AAA
    ELSE Fail

\* Small-text levels with the comparisons made strict.
complianceLevelStrict(ratio) ==
    IF ratio > 7000 THEN AAA
    ELSE IF ratio > 4500 THEN AA
    ELSE Fail

complianceLevel(ratio) ==
    IF ratio >= 7000 THEN AAA
    ELSE IF ratio >= 4500 THEN AA
    ELSE Fail

\* Large-text levels computed with the small-text thresholds.
complianceLevelLargeAsSmall(ratio) ==
    IF ratio >= 7000 THEN AAA
    ELSE IF ratio >= 4500 THEN AA
    ELSE Fail
\* Large-text levels with thresholds above those of small text.
complianceLevelLargeHarder(ratio) ==
    IF ratio >= 10000 THEN AAA
    ELSE IF ratio >= 8000 THEN AA
    ELSE Fail

complianceLevelLarge(ratio) ==
    IF ratio >= 4500 THEN AAA
    ELSE IF ratio >= 3000 THEN AA
    ELSE Fail

\* math.Round(ratio*100) / 100, in units of 1/100.
RoundRatio(ratio) ==
    (ratio + 5) \div 10

---------------------------------------------------------------------------
(* The report engine of main.go. *)

NoResults ==
    [AAA |-> <<>>, AA |-> <<>>, Fail |-> <<>>, Other |-> <<>>]

\* LoadColors with its two error returns dropped: an unread file gives empty palettes.
LoadColorsIgnoringError(file) ==
    [err |-> FALSE, Light |-> file.Light, Dark |-> file.Dark]

\* LoadColors("colors.json")
LoadColors(file) ==
    IF file.readable
    THEN [err |-> FALSE, Light |-> file.Light, Dark |-> file.Dark]
    ELSE [err |-> TRUE, Light |-> <<>>, Dark |-> <<>>]

\* requiresFix decided by the large-text level alone.
requiresFixLargeOnly(levelSmall, levelLarge) ==
    levelLarge = Fail

\* requiresFix := levelSmall == Fail || levelLarge == Fail
requiresFix(levelSmall, levelLarge) ==
    levelSmall = Fail \/ levelLarge = Fail

\* The ContrastResult literal with the levels taken from the rounded ratio.
NewContrastResultFromRounded(fgHex, nameLight, bgHex, nameDark, ratio) ==
    [ForegroundHex  |-> fgHex,
     ForegroundName |-> nameLight,
     BackgroundHex  |-> bgHex,
     BackgroundName |-> nameDark,
     ContrastRatio  |-> RoundRatio(ratio),
     LevelSmallText |-> complianceLevel(10 * RoundRatio(ratio)),
     LevelLargeText |-> complianceLevelLarge(10 * RoundRatio(ratio)),
     RequiresFix    |-> requiresFix(complianceLevel(10 * RoundRatio(ratio)),
                                    complianceLevelLarge(10 * RoundRatio(ratio)))]

\* The ContrastResult literal of both handlers.
NewContrastResult(fgHex, nameLight, bgHex, nameDark, ratio) ==
    [ForegroundHex  |-> fgHex,
     ForegroundName |-> nameLight,
     BackgroundHex  |-> bgHex,
     BackgroundName |-> nameDark,
     ContrastRatio  |-> RoundRatio(ratio),
     LevelSmallText |-> complianceLevel(ratio),
     LevelLargeText |-> complianceLevelLarge(ratio),
     RequiresFix    |-> requiresFix(complianceLevel(ratio), complianceLevelLarge(ratio))]

\* The switch of the report handler with its filter cases dropped.
BucketIgnoringFilter(results, filter, result) ==
    IF result.LevelSmallText = AAA THEN [results EXCEPT !.AAA = Append(@, result)]
    ELSE IF result.LevelSmallText = AA THEN [results EXCEPT !.AA = Append(@, result)]
    ELSE [results EXCEPT !.Fail = Append(@, result)]

\* The switch with its three filter cases putting the result at the front.
BucketFilteredNewestFirst(results, filter, result) ==
    LET levelSmall == result.LevelSmallText
    IN  IF filter = AAA /\ levelSmall = AAA
            THEN [results EXCEPT !.AAA = <<result>> \o @]
        ELSE IF filter = AA /\ levelSmall = AA
            THEN [results EXCEPT !.AA = <<result>> \o @]
        ELSE IF filter = FAIL /\ levelSmall = Fail
            THEN [results EXCEPT !.Fail = <<result>> \o @]
        ELSE IF filter = <<>>
            THEN IF levelSmall = AAA THEN [results EXCEPT !.AAA = Append(@, result)]
                 ELSE IF levelSmall = AA THEN [results EXCEPT !.AA = Append(@, result)]
                 ELSE IF levelSmall = Fail THEN [results EXCEPT !.Fail = Append(@, result)]
                 ELSE [results EXCEPT !.Other = Append(@, result)]
        ELSE results

\* The switch with a default case that treats any other filter as no filter.
BucketUnknownFilterKeepsAll(results, filter, result) ==
    LET levelSmall == result.LevelSmallText
    IN  IF filter = AAA /\ levelSmall = AAA
            THEN [results EXCEPT !.AAA = Append(@, result)]
        ELSE IF filter = AA /\ levelSmall = AA
            THEN [results EXCEPT !.AA = Append(@, result)]
        ELSE IF filter = FAIL /\ levelSmall = Fail
            THEN [results EXCEPT !.Fail = Append(@, result)]
        ELSE IF filter \notin {AAA, AA, FAIL}
            THEN IF levelSmall = AAA THEN [results EXCEPT !.AAA = Append(@, result)]
                 ELSE IF levelSmall = AA THEN [results EXCEPT !.AA = Append(@, result)]
                 ELSE IF levelSmall = Fail THEN [results EXCEPT !.Fail = Append(@, result)]
                 ELSE [results EXCEPT !.Other = Append(@, result)]
        ELSE results

\* The switch of the report handler: which bucket takes the result.
Bucket(results, filter, result) ==
    LET levelSmall == result.LevelSmallText
    IN  IF filter = AAA /\ levelSmall = AAA
            THEN [results EXCEPT !.AAA = Append(@, result)]
        ELSE IF filter = AA /\ levelSmall = AA
            THEN [results EXCEPT !.AA = Append(@, result)]
        ELSE IF filter = FAIL /\ levelSmall = Fail
            THEN [results EXCEPT !.Fail = Append(@, result)]
        ELSE IF filter = <<>>
            THEN IF levelSmall = AAA THEN [results EXCEPT !.AAA = Append(@, result)]
                 ELSE IF levelSmall = AA THEN [results EXCEPT !.AA = Append(@, result)]
                 ELSE IF levelSmall = Fail THEN [results EXCEPT !.Fail = Append(@, result)]
                 ELSE [results EXCEPT !.Other = Append(@, result)]
        ELSE results

\* A search test with the two negations left out: it skips the matching pairs.
SearchSkipsMatching(search, nameLight, nameDark) ==
    /\ search # <<>>
    /\ \/ Contains(ToLower(nameLight), search)
       \/ Contains(ToLower(nameDark), search)

\* A search test that looks at the foreground name only.
SearchSkipsForegroundOnly(search, nameLight, nameDark) ==
    search # <<>> /\ ~Contains(ToLower(nameLight), search)

\* The search test of the report handler: TRUE when the pair is skipped.
SearchSkips(search, nameLight, nameDark) ==
    /\ search # <<>>
    /\ ~Contains(ToLower(nameLight), search)
    /\ ~Contains(ToLower(nameDark), search)

\* The inner loop body with a bare `continue` on an error, as in the variant.
ReportComputedSilent(st, filter, fgHex, nameLight, bgHex, nameDark, cr) ==
    IF cr.err
    THEN st
    ELSE [st EXCEPT !.results =
             Bucket(@, filter, NewContrastResult(fgHex, nameLight, bgHex, nameDark, cr.ratio))]

\* The inner loop body of the report handler from the error test on.
\* st = [results, logged], cr = contrastRatio(fgHex, bgHex)
ReportComputed(st, filter, fgHex, nameLight, bgHex, nameDark, cr) ==
    IF cr.err
    THEN [st EXCEPT !.logged = Append(@, [fg |-> fgHex, bg |-> bgHex])]
    ELSE [st EXCEPT !.results =
             Bucket(@, filter, NewContrastResult(fgHex, nameLight, bgHex, nameDark, cr.ratio))]

\* One pass of the inner loop body of the report handler.
ReportPair(st, cs, search, filter, nameLight, nameDark) ==
    IF SearchSkips(search, nameLight, nameDark) THEN st
    ELSE ReportComputed(st, filter, cs.Light[nameLight], nameLight, cs.Dark[nameDark], nameDark,
                        contrastRatio(cs.Light[nameLight], cs.Dark[nameDark]))

RECURSIVE ReportInner(_, _, _, _, _, _)
ReportInner(st, cs, search, filter, nameLight, darkNames) ==
    IF darkNames = <<>> THEN st
    ELSE ReportInner(ReportPair(st, cs, search, filter, nameLight, Head(darkNames)),
                     cs, search, filter, nameLight, Tail(darkNames))

RECURSIVE ReportOuter(_, _, _, _, _, _)
ReportOuter(st, cs, search, filter, lightNames, darkNames) ==
    IF lightNames = <<>> THEN st
    ELSE ReportOuter(ReportInner(st, cs, search, filter, Head(lightNames), darkNames),
                     cs, search, filter, Tail(lightNames), darkNames)

\* A fold that is skipped.
FoldFailSkipped(results) ==
    results

\* results.Other = append(results.Other, results.Fail...); results.Fail = {}
FoldFail(results) ==
    [results EXCEPT !.Other = @ \o results.Fail, !.Fail = <<>>]

\* The engine of allContrastsHandler, from the ranged-over names to the buckets.
\* lightRange, darkRange: the names in the order the map iteration gave them.
Report(cs, search, filter, lightRange, darkRange) ==
    LET st == ReportOuter([results |-> NoResults, logged |-> <<>>], cs, search, filter,
                          SortStrings(lightRange), SortStrings(darkRange))
    IN  IF filter = <<>> THEN [st EXCEPT !.results = FoldFail(@)] ELSE st

---------------------------------------------------------------------------
(* The export engine of main.go. *)

\* The switch of the export handler keeping the AAA results only.
DownloadBucketAAAOnly(results, result) ==
    IF result.LevelSmallText = AAA THEN [results EXCEPT !.AAA = Append(@, result)]
    ELSE results

\* The switch of the export handler.
DownloadBucket(results, result) ==
    LET levelSmall == result.LevelSmallText
    IN  IF levelSmall = AAA THEN [results EXCEPT !.AAA = Append(@, result)]
        ELSE IF levelSmall = AA THEN [results EXCEPT !.AA = Append(@, result)]
        ELSE IF levelSmall = Fail THEN [results EXCEPT !.Fail = Append(@, result)]
        ELSE [results EXCEPT !.Other = Append(@, result)]

\* The inner loop body of the export handler from the error test on.
DownloadComputed(st, fgHex, nameLight, bgHex, nameDark, cr) ==
    IF cr.err
    THEN [st EXCEPT !.logged = Append(@, [fg |-> fgHex, bg |-> bgHex])]
    ELSE [st EXCEPT !.results =
             DownloadBucket(@, NewContrastResult(fgHex, nameLight, bgHex, nameDark, cr.ratio))]

\* One pass of the inner loop body of the export handler.
DownloadPair(st, cs, nameLight, nameDark) ==
    DownloadComputed(st, cs.Light[nameLight], nameLight, cs.Dark[nameDark], nameDark,
                     contrastRatio(cs.Light[nameLight], cs.Dark[nameDark]))

RECURSIVE DownloadInner(_, _, _, _)
DownloadInner(st, cs, nameLight, darkNames) ==
    IF darkNames = <<>> THEN st
    ELSE DownloadInner(DownloadPair(st, cs, nameLight, Head(darkNames)),
                       cs, nameLight, Tail(darkNames))

RECURSIVE DownloadOuter(_, _, _, _)
DownloadOuter(st, cs, lightNames, darkNames) ==
    IF lightNames = <<>> THEN st
    ELSE DownloadOuter(DownloadInner(st, cs, Head(lightNames), darkNames),
                       cs, Tail(lightNames), darkNames)

\* The engine of downloadHandler.
Download(cs, lightRange, darkRange) ==
    LET st == DownloadOuter([results |-> NoResults, logged |-> <<>>], cs,
                            SortStrings(lightRange), SortStrings(darkRange))
    IN  [st EXCEPT !.results = FoldFail(@)]

---------------------------------------------------------------------------
(* The CSV writer. *)

Digit(n) ==
    HexDigits[n + 1]

RECURSIVE DecimalString(_)
DecimalString(n) ==
    IF n < 10 THEN <<Digit(n)>> ELSE DecimalString(n \div 10) \o <<Digit(n % 10)>>

\* strconv.FormatFloat(x, 'f', 2, 64) of a ratio held in units of 1/100.
FormatFloat(x) ==
    DecimalString(x \div 100) \o <<".">> \o <<Digit((x % 100) \div 10), Digit(x % 10)>>

\* strconv.FormatBool
FormatBool(b) ==
    IF b THEN << "t", "r", "u", "e" >> ELSE << "f", "a", "l", "s", "e" >>

CsvHeader ==
    << <<"F", "o", "r", "e", "g", "r", "o", "u", "n", "d", " ", "N", "a", "m", "e">>,
       <<"F", "o", "r", "e", "g", "r", "o", "u", "n", "d", " ", "H", "e", "x">>,
       <<"B", "a", "c", "k", "g", "r", "o", "u", "n", "d", " ", "N", "a", "m", "e">>,
       <<"B", "a", "c", "k", "g", "r", "o", "u", "n", "d", " ", "H", "e", "x">>,
       <<"C", "o", "n", "t", "r", "a", "s", "t", " ", "R", "a", "t", "i", "o">>,
       <<"W", "C", "A", "G", " ", "L", "e", "v", "e", "l", " ", "(", "S", "m", "a", "l", "l", " ", "T", "e", "x", "t", ")">>,
       <<"W", "C", "A", "G", " ", "L", "e", "v", "e", "l", " ", "(", "L", "a", "r", "g", "e", " ", "T", "e", "x", "t", ")">>,
       <<"R", "e", "q", "u", "i", "r", "e", "s", " ", "F", "i", "x">> >>

\* The record writeResultsToCSV writes for one result.
CsvRecord(result) ==
    << result.ForegroundName,
       result.ForegroundHex,
       result.BackgroundName,
       result.BackgroundHex,
       FormatFloat(result.ContrastRatio),
       result.LevelSmallText,
       result.LevelLargeText,
       FormatBool(result.RequiresFix) >>

\* writeResultsToCSV: the records appended to those already written.
writeResultsToCSV(written, results) ==
    written \o [i \in 1..Len(results) |-> CsvRecord(results[i])]

\* The records with the AA group written ahead of the AAA group.
CsvRecordsAAFirst(results) ==
    writeResultsToCSV(
        writeResultsToCSV(
            writeResultsToCSV(<<CsvHeader>>, results.AA),
            results.AAA),
        results.Other)

\* The records downloadHandler hands to the csv.Writer, in order.
CsvRecords(results) ==
    writeResultsToCSV(
        writeResultsToCSV(
            writeResultsToCSV(<<CsvHeader>>, results.AAA),
            results.AA),
        results.Other)

RECURSIVE FieldBytes(_)
FieldBytes(record) ==
    IF record = <<>> THEN 0 ELSE Len(Head(record)) + FieldBytes(Tail(record))

\* Bytes of one record as csv.Writer emits it: the fields (none needs quoting
\* over the bytes of the model), a comma between fields, a newline at the end.
RecordBytes(record) ==
    FieldBytes(record) + Len(record)

RECURSIVE TotalBytes(_)
TotalBytes(records) ==
    IF records = <<>> THEN 0 ELSE RecordBytes(Head(records)) + TotalBytes(Tail(records))

\* The buffer of the bufio.Writer inside csv.NewWriter(file).
BufSize == 4096

\* Bytes that have reached the file when `total` bytes were written and Flush
\* has not run: the buffer is emptied only when a write does not fit.
FlushedBytes(total) ==
    IF total = 0 THEN 0 ELSE BufSize * ((total - 1) \div BufSize)

\* The leading records that lie wholly within the first n bytes.
RECURSIVE RecordsWithin(_, _)
RecordsWithin(records, n) ==
    IF records = <<>> \/ RecordBytes(Head(records)) > n THEN <<>>
    ELSE <<Head(records)>> \o RecordsWithin(Tail(records), n - RecordBytes(Head(records)))

\* The file after `records` were written: [bytes, rows].
FileAfter(records, flushed) ==
    IF flushed
    THEN [bytes |-> TotalBytes(records), rows |-> records]
    ELSE [bytes |-> FlushedBytes(TotalBytes(records)),
          rows  |-> RecordsWithin(records, FlushedBytes(TotalBytes(records)))]

EmptyFile ==
    [bytes |-> 0, rows |-> <<>>]

---------------------------------------------------------------------------
(* Requests and the state of main.go. *)

\* Iteration orders `for name := range m` may produce: every order of the keys.
MapRange(m) ==
    LET keys == DOMAIN m
        n    == Cardinality(keys)
    IN  {s \in [1..n -> keys] : \A i, j \in 1..n : i # j => s[i] # s[j]}

LightNamePool ==
    { <<"a">>, <<"B">>, <<"c">> }

DarkNamePool ==
    { <<"A">>, <<"A", "b">> }

LightHexPool ==
    { <<"#", "0", "0", "0", "0", "0", "0">>,
      <<"#", "7", "7", "7", "7", "7", "7">>,
      <<"#", "2", "4", "6", "6", "2", "4">>,
      <<"#", "1", "2", "3", "4", "5">>,
      <<"#", "+", "f", "+", "f", "+", "f">> }

DarkHexPool ==
    { <<"F", "F", "F", "F", "F", "F">>,
      <<"#", "8", "8", "8", "8", "8", "8">> }

Palettes(names, hexes) ==
    UNION { [D -> hexes] : D \in {S \in SUBSET names : Cardinality(S) <= MaxPalette} }

ColorFiles ==
    { [readable |-> TRUE, Light |-> l, Dark |-> d] :
        l \in Palettes(LightNamePool, LightHexPool),
        d \in Palettes(DarkNamePool, DarkHexPool) }
    \cup { [readable |-> FALSE, Light |-> <<>>, Dark |-> <<>>] }

Searches ==
    { <<>>, <<"B">>, <<"z">> }

Filters ==
    { <<>>, <<"A", "A", "A">>, <<"a", "a">>, <<"F", "a", "i", "l">>, <<"X">> }

NoRequest ==
    [path |-> "", search |-> <<>>, filter |-> <<>>]

\* The two parts of the page that depend on each other: the "Show Fixable
\* Combinations" button and the list of the modal it opens.
NoPage ==
    [button |-> FALSE, modal |-> <<>>]

\* tmpl.Execute on the template data: the button is inside {{if .Other}},
\* the list of the modal is {{range .Fail}}.
RenderPage(data) ==
    [button |-> data.Other # <<>>, modal |-> data.Fail]

NoResponse ==
    [kind |-> "none", status |-> 0, results |-> NoResults, logged |-> <<>>,
     Search |-> <<>>, Filter |-> <<>>, body |-> EmptyFile, page |-> NoPage]

ErrorResponse ==
    [NoResponse EXCEPT !.kind = "error", !.status = 500]

NoJSON ==
    [served |-> 0, results |-> <<>>]

NoLevels ==
    [done |-> FALSE, small |-> <<>>, large |-> <<>>]

NoLuminance ==
    [done |-> FALSE, err |-> FALSE, lum |-> 0, r |-> 0, g |-> 0, b |-> 0]

NoPair ==
    [fg |-> <<>>, bg |-> <<>>]

NoRatio ==
    [done |-> FALSE]

\* A request slot before its request arrives.
IdleHandler ==
    [pc |-> "idle", path |-> "", search |-> <<>>, filter |-> <<>>, status |-> 0,
     results |-> NoResults, body |-> EmptyFile]

NoInflight ==
    [i \in 1..MaxInflight |-> IdleHandler]

Init ==
    /\ colors \in ColorFiles
    /\ csvFile = EmptyFile
    /\ request = NoRequest
    /\ response = NoResponse
    /\ jsonResponse = NoJSON
    /\ ratioIn = 0
    /\ levelOut = NoLevels
    /\ hexIn = <<>>
    /\ lumOut = NoLuminance
    /\ pairIn = NoPair
    /\ ratioOut = NoRatio
    /\ inflight = NoInflight

\* GET /?search=..&filter=.. from a client that is not waiting for a response.
allContrastsHandler ==
    \E rawSearch \in Searches, rawFilter \in Filters :
        LET loaded == LoadColors(colors)
            search == ToLower(rawSearch)
            filter == ToUpper(rawFilter)
        IN  /\ response.kind = "none"
            /\ request' = [path |-> "/", search |-> rawSearch, filter |-> rawFilter]
            /\ IF loaded.err
               THEN response' = ErrorResponse
               ELSE \E lightRange \in MapRange(loaded.Light), darkRange \in MapRange(loaded.Dark) :
                       LET st == Report(loaded, search, filter, lightRange, darkRange)
                       IN  response' = [kind |-> "html", status |-> 200,
                                        results |-> st.results, logged |-> st.logged,
                                        Search |-> rawSearch, Filter |-> filter,
                                        body |-> EmptyFile,
                                        page |-> RenderPage(st.results)]
            /\ UNCHANGED <<colors, csvFile, jsonResponse, ratioIn, levelOut, hexIn, lumOut, pairIn, ratioOut, inflight>>

\* Query strings a client sends with /download.
DownloadQueries ==
    [search : {<<>>, <<"B">>}, filter : {<<>>, <<"A", "A", "A">>}]

\* downloadHandler from os.Create on, st = [results, logged] being what the
\* loops and the fold computed and records what goes to the csv.Writer.
\* `created` is whether os.Create succeeds; the query of the request is read
\* nowhere.
DownloadRespond(st, records) ==
    \E created \in BOOLEAN, query \in DownloadQueries :
        /\ request' = [path |-> "/download", search |-> query.search, filter |-> query.filter]
        /\ IF ~created
           THEN /\ response' = [ErrorResponse EXCEPT !.logged = st.logged]
                /\ csvFile' = csvFile
           ELSE /\ response' = [kind |-> "csv", status |-> 200,
                                results |-> st.results, logged |-> st.logged,
                                Search |-> <<>>, Filter |-> <<>>,
                                body |-> FileAfter(records, FALSE),
                                page |-> NoPage]
                /\ csvFile' = FileAfter(records, TRUE)

\* The loops of downloadHandler done, on to the file.
DownloadWritten(st) ==
    DownloadRespond(st, CsvRecords(st.results))

\* GET /download?search=..&filter=..
downloadHandler ==
    LET loaded == LoadColors(colors)
    IN  /\ response.kind = "none"
        /\ IF loaded.err
           THEN /\ \E query \in DownloadQueries :
                      request' = [path |-> "/download", search |-> query.search,
                                  filter |-> query.filter]
                /\ response' = ErrorResponse
                /\ csvFile' = csvFile
           ELSE \E lightRange \in MapRange(loaded.Light), darkRange \in MapRange(loaded.Dark) :
                   DownloadWritten(Download(loaded, lightRange, darkRange))
        /\ UNCHANGED <<colors, jsonResponse, ratioIn, levelOut, hexIn, lumOut, pairIn, ratioOut, inflight>>

\* The client takes the response; the exchange is over.
ClientReads ==
    /\ response.kind # "none"
    /\ request' = NoRequest
    /\ response' = NoResponse
    /\ UNCHANGED <<colors, csvFile, jsonResponse, ratioIn, levelOut, hexIn, lumOut, pairIn, ratioOut, inflight>>

Next ==
    \/ allContrastsHandler
    \/ downloadHandler
    \/ ClientReads

Spec == Init /\ [][Next]_vars

---------------------------------------------------------------------------
(* The JSON variant: hard-coded palettes, no sorting, one flat result list. *)

\* var lightColors, in source order.
lightColorsTable ==
    << <<<<"b", "l", "a", "c", "k">>, <<"#", "3", "3", "3", "3", "3", "3">>>>,
       <<<<"s", "i", "l", "v", "e", "r">>, <<"#", "7", "7", "7", "7", "7", "7">>>>,
       <<<<"g", "r", "a", "y">>, <<"#", "5", "5", "5", "5", "5", "5">>>>,
       <<<<"w", "h", "i", "t", "e">>, <<"#", "e", "e", "e", "e", "e", "e">>>>,
       <<<<"m", "a", "r", "o", "o", "n">>, <<"#", "8", "0", "0", "0", "0", "0">>>>,
       <<<<"r", "e", "d">>, <<"#", "b", "3", "0", "0", "0", "0">>>>,
       <<<<"p", "u", "r", "p", "l", "e">>, <<"#", "8", "0", "0", "0", "8", "0">>>>,
       <<<<"f", "u", "c", "h", "s", "i", "a">>, <<"#", "b", "3", "0", "0", "b", "3">>>>,
       <<<<"g", "r", "e", "e", "n">>, <<"#", "0", "0", "8", "0", "0", "0">>>>,
       <<<<"l", "i", "m", "e">>, <<"#", "2", "d", "7", "f", "2", "d">>>>,
       <<<<"o", "l", "i", "v", "e">>, <<"#", "6", "6", "6", "6", "0", "0">>>>,
       <<<<"y", "e", "l", "l", "o", "w">>, <<"#", "9", "9", "9", "9", "0", "0">>>>,
       <<<<"n", "a", "v", "y">>, <<"#", "0", "0", "0", "0", "8", "0">>>>,
       <<<<"b", "l", "u", "e">>, <<"#", "0", "0", "0", "0", "b", "3">>>>,
       <<<<"t", "e", "a", "l">>, <<"#", "0", "0", "6", "6", "6", "6">>>>,
       <<<<"a", "q", "u", "a">>, <<"#", "0", "0", "9", "9", "9", "9">>>> >>

\* var darkColors, in source order.
darkColorsTable ==
    << <<<<"b", "l", "a", "c", "k">>, <<"#", "1", "2", "1", "2", "1", "2">>>>,
       <<<<"s", "i", "l", "v", "e", "r">>, <<"#", "c", "0", "c", "0", "c", "0">>>>,
       <<<<"g", "r", "a", "y">>, <<"#", "a", "a", "a", "a", "a", "a">>>>,
       <<<<"w", "h", "i", "t", "e">>, <<"#", "f", "0", "f", "0", "f", "0">>>>,
       <<<<"m", "a", "r", "o", "o", "n">>, <<"#", "f", "f", "4", "d", "4", "d">>>>,
       <<<<"r", "e", "d">>, <<"#", "f", "f", "3", "3", "3", "3">>>>,
       <<<<"p", "u", "r", "p", "l", "e">>, <<"#", "c", "c", "6", "6", "c", "c">>>>,
       <<<<"f", "u", "c", "h", "s", "i", "a">>, <<"#", "f", "f", "6", "6", "f", "f">>>>,
       <<<<"g", "r", "e", "e", "n">>, <<"#", "3", "3", "c", "c", "3", "3">>>>,
       <<<<"l", "i", "m", "e">>, <<"#", "6", "6", "f", "f", "6", "6">>>>,
       <<<<"o", "l", "i", "v", "e">>, <<"#", "c", "c", "c", "c", "3", "3">>>>,
       <<<<"y", "e", "l", "l", "o", "w">>, <<"#", "f", "f", "f", "f", "3", "3">>>>,
       <<<<"n", "a", "v", "y">>, <<"#", "6", "6", "6", "6", "f", "f">>>>,
       <<<<"b", "l", "u", "e">>, <<"#", "4", "d", "4", "d", "f", "f">>>>,
       <<<<"t", "e", "a", "l">>, <<"#", "3", "3", "c", "c", "c", "c">>>>,
       <<<<"a", "q", "u", "a">>, <<"#", "6", "6", "f", "f", "f", "f">>>> >>

\* The map a table stands for, cut to its first MaxDefaults entries so that
\* the iteration orders of the map can be enumerated.
TableMap(table) ==
    LET n == IF Len(table) < MaxDefaults THEN Len(table) ELSE MaxDefaults
    IN  [name \in {table[i][1] : i \in 1..n} |->
            table[CHOOSE i \in 1..n : table[i][1] = name][2]]

lightColors ==
    TableMap(lightColorsTable)

darkColors ==
    TableMap(darkColorsTable)

\* contrastRatio of the variant, from the two luminances on: L1 and L2 start
\* as foreground and background and are swapped when L2 is the larger.
RatioOfLuminancesSwap(fg, bg) ==
    IF fg.err \/ bg.err THEN [err |-> TRUE, ratio |-> 0]
    ELSE LET swap == bg.lum > fg.lum
             L1   == IF swap THEN bg.lum ELSE fg.lum
             L2   == IF swap THEN fg.lum ELSE bg.lum
         IN  [err |-> FALSE, ratio |-> ((L1 + 50000) * 1000) \div (L2 + 50000)]

contrastRatioSwap(fgHex, bgHex) ==
    RatioOfLuminancesSwap(relativeLuminance(fgHex), relativeLuminance(bgHex))

\* The loop body of the variant's handler from the error test on.
JSONComputed(results, fgHex, bgHex, cr) ==
    IF cr.err THEN results
    ELSE Append(results, [Fg            |-> fgHex,
                          Bg            |-> bgHex,
                          ContrastRatio |-> RoundRatio(cr.ratio),
                          LevelSmall    |-> complianceLevel(cr.ratio),
                          LevelLarge    |-> complianceLevelLarge(cr.ratio)])

RECURSIVE JSONInner(_, _, _)
JSONInner(results, fgHex, darkRange) ==
    IF darkRange = <<>> THEN results
    ELSE JSONInner(JSONComputed(results, fgHex, darkColors[Head(darkRange)],
                                contrastRatioSwap(fgHex, darkColors[Head(darkRange)])),
                   fgHex, Tail(darkRange))

RECURSIVE JSONOuter(_, _, _)
JSONOuter(results, lightRange, darkRange) ==
    IF lightRange = <<>> THEN results
    ELSE JSONOuter(JSONInner(results, lightColors[Head(lightRange)], darkRange),
                   Tail(lightRange), darkRange)

\* The results of the variant's handler when the two maps are ranged over in
\* the orders lightRange and darkRange.
JSONResults(lightRange, darkRange) ==
    JSONOuter(<<>>, lightRange, darkRange)

InitJSON ==
    /\ colors = [readable |-> FALSE, Light |-> <<>>, Dark |-> <<>>]
    /\ csvFile = EmptyFile
    /\ request = NoRequest
    /\ response = NoResponse
    /\ jsonResponse = NoJSON
    /\ ratioIn = 0
    /\ levelOut = NoLevels
    /\ hexIn = <<>>
    /\ lumOut = NoLuminance
    /\ pairIn = NoPair
    /\ ratioOut = NoRatio
    /\ inflight = NoInflight

\* GET /all-contrasts of the variant; `served` counts the requests served.
allContrastsHandlerJSON ==
    /\ jsonResponse.served < MaxRequests
    /\ \E lightRange \in MapRange(lightColors), darkRange \in MapRange(darkColors) :
          jsonResponse' = [served  |-> jsonResponse.served + 1,
                           results |-> JSONResults(lightRange, darkRange)]
    /\ UNCHANGED <<colors, csvFile, request, response, ratioIn, levelOut, hexIn, lumOut, pairIn, ratioOut, inflight>>

NextJSON ==
    allContrastsHandlerJSON

SpecJSON == InitJSON /\ [][NextJSON]_vars

---------------------------------------------------------------------------
(* The level functions on their own. *)

InitLevels ==
    /\ colors = [readable |-> FALSE, Light |-> <<>>, Dark |-> <<>>]
    /\ csvFile = EmptyFile
    /\ request = NoRequest
    /\ response = NoResponse
    /\ jsonResponse = NoJSON
    /\ ratioIn \in 0..MaxRatio
    /\ levelOut = NoLevels
    /\ hexIn = <<>>
    /\ lumOut = NoLuminance
    /\ pairIn = NoPair
    /\ ratioOut = NoRatio
    /\ inflight = NoInflight

Classify ==
    /\ ~levelOut.done
    /\ levelOut' = [done  |-> TRUE,
                    small |-> complianceLevel(ratioIn),
                    large |-> complianceLevelLarge(ratioIn)]
    /\ UNCHANGED <<colors, csvFile, request, response, jsonResponse, ratioIn, hexIn, lumOut, pairIn, ratioOut, inflight>>

NextLevels ==
    Classify

SpecLevels == InitLevels /\ [][NextLevels]_vars

---------------------------------------------------------------------------
(* relativeLuminance on its own. *)

HexAlphabet ==
    { "#", "0", "F", "g", "-" }

HexInputs ==
    UNION { [1..n -> HexAlphabet] : n \in 0..MaxHexLen }

InitHex ==
    /\ colors = [readable |-> FALSE, Light |-> <<>>, Dark |-> <<>>]
    /\ csvFile = EmptyFile
    /\ request = NoRequest
    /\ response = NoResponse
    /\ jsonResponse = NoJSON
    /\ ratioIn = 0
    /\ levelOut = NoLevels
    /\ hexIn \in HexInputs
    /\ lumOut = NoLuminance
    /\ pairIn = NoPair
    /\ ratioOut = NoRatio
    /\ inflight = NoInflight

Luminance ==
    /\ ~lumOut.done
    /\ lumOut' = [done |-> TRUE] @@ relativeLuminance(hexIn)
    /\ UNCHANGED <<colors, csvFile, request, response, jsonResponse, ratioIn, levelOut, hexIn, pairIn, ratioOut, inflight>>

NextHex ==
    Luminance

SpecHex == InitHex /\ [][NextHex]_vars

---------------------------------------------------------------------------
(* contrastRatio on its own, on colors of a grid of channel values. *)

UpperHexDigits ==
    <<"0", "1", "2", "3", "4", "5", "6", "7", "8", "9", "A", "B", "C", "D", "E", "F">>

\* A channel value as the two hexadecimal digits of a color string.
HexByte(c) ==
    <<UpperHexDigits[(c \div 16) + 1], UpperHexDigits[(c % 16) + 1]>>

ChannelValues ==
    {(k * 255) \div MaxSteps : k \in 0..MaxSteps}

\* The valid colors whose channels are on the grid, written "#RRGGBB".
GridColors ==
    {<<"#">> \o HexByte(r) \o HexByte(g) \o HexByte(b) : r, g, b \in ChannelValues}

InitRatio ==
    /\ colors = [readable |-> FALSE, Light |-> <<>>, Dark |-> <<>>]
    /\ csvFile = EmptyFile
    /\ request = NoRequest
    /\ response = NoResponse
    /\ jsonResponse = NoJSON
    /\ ratioIn = 0
    /\ levelOut = NoLevels
    /\ hexIn = <<>>
    /\ lumOut = NoLuminance
    /\ pairIn \in [fg : GridColors, bg : GridColors]
    /\ ratioOut = NoRatio
    /\ inflight = NoInflight

\* What the loop body of the handlers appends for the pair: nothing on an
\* error, else the result built from the ratio.
PairResult(fgHex, bgHex, cr) ==
    IF cr.err THEN <<>>
    ELSE <<NewContrastResult(fgHex, <<"f", "g">>, bgHex, <<"b", "g">>, cr.ratio)>>

\* Both implementations of contrastRatio on the pair, in both argument orders.
Contrast ==
    /\ ~ratioOut.done
    /\ ratioOut' = [done   |-> TRUE,
                    fgLum  |-> relativeLuminance(pairIn.fg),
                    bgLum  |-> relativeLuminance(pairIn.bg),
                    ab     |-> contrastRatio(pairIn.fg, pairIn.bg),
                    ba     |-> contrastRatio(pairIn.bg, pairIn.fg),
                    swapAb |-> contrastRatioSwap(pairIn.fg, pairIn.bg),
                    swapBa |-> contrastRatioSwap(pairIn.bg, pairIn.fg),
                    result |-> PairResult(pairIn.fg, pairIn.bg,
                                          contrastRatio(pairIn.fg, pairIn.bg))]
    /\ UNCHANGED <<colors, csvFile, request, response, jsonResponse, ratioIn, levelOut,
                   hexIn, lumOut, pairIn, inflight>>

NextRatio ==
    Contrast

SpecRatio == InitRatio /\ [][NextRatio]_vars

---------------------------------------------------------------------------
(* main.go serving requests concurrently: net/http runs each handler in its
   own goroutine.  allContrastsHandler touches nothing shared but colors.json,
   which it only reads, and is one step.  downloadHandler is split at its
   operations on contrast_results.csv, the file all exports share. *)

\* A file after `written` was written to it from offset 0.  Every export of
\* one run writes the same bytes, so the longer of the two contents remains.
WriteAt(file, written) ==
    IF written.bytes > file.bytes THEN written ELSE file

\* The color files with at most one entry in each palette.
SmallColorFiles ==
    {f \in ColorFiles : Cardinality(DOMAIN f.Light) <= 1 /\ Cardinality(DOMAIN f.Dark) <= 1}

InitConcurrent ==
    /\ colors \in SmallColorFiles
    /\ csvFile = EmptyFile
    /\ request = NoRequest
    /\ response = NoResponse
    /\ jsonResponse = NoJSON
    /\ ratioIn = 0
    /\ levelOut = NoLevels
    /\ hexIn = <<>>
    /\ lumOut = NoLuminance
    /\ pairIn = NoPair
    /\ ratioOut = NoRatio
    /\ inflight = NoInflight

\* GET /?search=..&filter=.. served in slot i, start to end.
ReportRequest(i) ==
    /\ inflight[i].pc = "idle"
    /\ \E rawSearch \in Searches, rawFilter \in Filters :
          LET loaded == LoadColors(colors)
          IN  IF loaded.err
              THEN inflight' = [inflight EXCEPT ![i] =
                       [IdleHandler EXCEPT !.pc = "done", !.path = "/", !.search = rawSearch,
                                           !.filter = rawFilter, !.status = 500]]
              ELSE \E lightRange \in MapRange(loaded.Light), darkRange \in MapRange(loaded.Dark) :
                      inflight' = [inflight EXCEPT ![i] =
                          [IdleHandler EXCEPT
                              !.pc = "done", !.path = "/", !.search = rawSearch,
                              !.filter = rawFilter, !.status = 200,
                              !.results = Report(loaded, ToLower(rawSearch), ToUpper(rawFilter),
                                                 lightRange, darkRange).results]]
    /\ UNCHANGED <<colors, csvFile, request, response, jsonResponse, ratioIn, levelOut,
                   hexIn, lumOut, pairIn, ratioOut>>

\* GET /download in slot i, up to the fold of Fail into Other (lines 249-318).
DownloadCompute(i) ==
    /\ inflight[i].pc = "idle"
    /\ LET loaded == LoadColors(colors)
       IN  IF loaded.err
           THEN inflight' = [inflight EXCEPT ![i] =
                    [IdleHandler EXCEPT !.pc = "done", !.path = "/download", !.status = 500]]
           ELSE \E lightRange \in MapRange(loaded.Light), darkRange \in MapRange(loaded.Dark) :
                   inflight' = [inflight EXCEPT ![i] =
                       [IdleHandler EXCEPT
                           !.pc = "computed", !.path = "/download",
                           !.results = Download(loaded, lightRange, darkRange).results]]
    /\ UNCHANGED <<colors, csvFile, request, response, jsonResponse, ratioIn, levelOut,
                   hexIn, lumOut, pairIn, ratioOut>>

\* os.Create("contrast_results.csv") truncates the shared file, or fails.
DownloadCreate(i) ==
    /\ inflight[i].pc = "computed"
    /\ \E created \in BOOLEAN :
          IF created
          THEN /\ csvFile' = EmptyFile
               /\ inflight' = [inflight EXCEPT ![i].pc = "created"]
          ELSE /\ csvFile' = csvFile
               /\ inflight' = [inflight EXCEPT ![i].pc = "done", ![i].status = 500,
                                               ![i].results = NoResults]
    /\ UNCHANGED <<colors, request, response, jsonResponse, ratioIn, levelOut,
                   hexIn, lumOut, pairIn, ratioOut>>

\* The header and the three groups go to the csv.Writer; what overflows its
\* buffer reaches the file.
DownloadWrite(i) ==
    /\ inflight[i].pc = "created"
    /\ csvFile' = WriteAt(csvFile, FileAfter(CsvRecords(inflight[i].results), FALSE))
    /\ inflight' = [inflight EXCEPT ![i].pc = "written"]
    /\ UNCHANGED <<colors, request, response, jsonResponse, ratioIn, levelOut,
                   hexIn, lumOut, pairIn, ratioOut>>

\* http.ServeFile sends the file as it is now.
DownloadServe(i) ==
    /\ inflight[i].pc = "written"
    /\ inflight' = [inflight EXCEPT ![i].pc = "served", ![i].status = 200,
                                    ![i].body = csvFile]
    /\ UNCHANGED <<colors, csvFile, request, response, jsonResponse, ratioIn, levelOut,
                   hexIn, lumOut, pairIn, ratioOut>>

\* The handler returns: the deferred writer.Flush() and file.Close() run.
DownloadReturn(i) ==
    /\ inflight[i].pc = "served"
    /\ csvFile' = WriteAt(csvFile, FileAfter(CsvRecords(inflight[i].results), TRUE))
    /\ inflight' = [inflight EXCEPT ![i].pc = "done"]
    /\ UNCHANGED <<colors, request, response, jsonResponse, ratioIn, levelOut,
                   hexIn, lumOut, pairIn, ratioOut>>

NextConcurrent ==
    \E i \in 1..MaxInflight :
        \/ ReportRequest(i)
        \/ DownloadCompute(i)
        \/ DownloadCreate(i)
        \/ DownloadWrite(i)
        \/ DownloadServe(i)
        \/ DownloadReturn(i)

SpecConcurrent == InitConcurrent /\ [][NextConcurrent]_vars

---------------------------------------------------------------------------
(* What the claims speak of. *)

Elems(seq) ==
    {seq[i] : i \in 1..Len(seq)}

\* Every result of a response, whatever its bucket.
AllResults(results) ==
    Elems(results.AAA) \cup Elems(results.AA) \cup Elems(results.Fail) \cup Elems(results.Other)

\* A response that carries a report: the page of "/" or the export of "/download".
HasReport ==
    response.kind \in {"html", "csv"}

\* A hex entry as the specification defines it: an optional '#', then exactly
\* six hexadecimal digits.
WellFormedHex(hex) ==
    LET h == TrimPrefix(hex)
    IN  Len(h) = 6 /\ \A i \in 1..6 : IsHexDigit(h[i])

\* The search term the response was computed with (none for the export).
TermOf(resp) ==
    IF resp.kind = "html" THEN ToLower(resp.Search) ELSE <<>>

Matches(term, nameLight, nameDark) ==
    Contains(ToLower(nameLight), term) \/ Contains(ToLower(nameDark), term)

\* The pairs of the cross product, as [fg, bg] name pairs.
AllPairs ==
    {<<nl, nd>> : nl \in DOMAIN colors.Light, nd \in DOMAIN colors.Dark}

\* The pairs whose contrast is computed without error under a search term.
ComputedPairs(term) ==
    {p \in AllPairs :
        /\ term = <<>> \/ Matches(term, p[1], p[2])
        /\ ~contrastRatio(colors.Light[p[1]], colors.Dark[p[2]]).err}

\* The result the engine builds for a pair.
ResultOf(p) ==
    NewContrastResult(colors.Light[p[1]], p[1], colors.Dark[p[2]], p[2],
                      contrastRatio(colors.Light[p[1]], colors.Dark[p[2]]).ratio)

\* C1: for every ratio the small-text level is AAA from 7 up, AA from 4.5 up
\* to below 7, Fail below 4.5, and nothing else.
C1_SmallTextLevels ==
    levelOut.done =>
        /\ ratioIn >= 7000 => levelOut.small = AAA
        /\ (ratioIn >= 4500 /\ ratioIn < 7000) => levelOut.small = AA
        /\ ratioIn < 4500 => levelOut.small = Fail
        /\ levelOut.small \in {AAA, AA, Fail}

C1_Witness ==
    /\ levelOut.done
    /\ ratioIn = 7000
    /\ levelOut.small = AAA

\* C2: for every ratio the large-text level is AAA from 4.5 up, AA from 3 up
\* to below 4.5, Fail below 3, and nothing else.
C2_LargeTextLevels ==
    levelOut.done =>
        /\ ratioIn >= 4500 => levelOut.large = AAA
        /\ (ratioIn >= 3000 /\ ratioIn < 4500) => levelOut.large = AA
        /\ ratioIn < 3000 => levelOut.large = Fail
        /\ levelOut.large \in {AAA, AA, Fail}

C2_Witness ==
    /\ levelOut.done
    /\ ratioIn = 3000
    /\ levelOut.large = AA

\* C3: in every result of the report page or of the export, requiresFix is
\* true exactly when the small-text level or the large-text level is Fail.
C3_RequiresFixIffFail ==
    HasReport =>
        \A r \in AllResults(response.results) :
            r.RequiresFix <=> (r.LevelSmallText = Fail \/ r.LevelLargeText = Fail)

\* A report with a result that fails for small text only, and one that passes.
C3_Witness ==
    /\ HasReport
    /\ \E r \in AllResults(response.results) :
          r.RequiresFix /\ r.LevelSmallText = Fail /\ r.LevelLargeText = AA
    /\ \E r \in AllResults(response.results) : ~r.RequiresFix

\* The response was computed with no level filter.
Unfiltered ==
    response.kind = "csv" \/ (response.kind = "html" /\ response.Filter = <<>>)

\* C4: with no filter the Fail bucket of the final report is empty, AAA holds
\* exactly the computed pairs of small-text level AAA, AA those of level AA,
\* and Other those of level Fail.
C4_UnfilteredBuckets ==
    Unfiltered =>
        LET computed == {ResultOf(p) : p \in ComputedPairs(TermOf(response))}
        IN  /\ response.results.Fail = <<>>
            /\ Elems(response.results.AAA) = {r \in computed : r.LevelSmallText = AAA}
            /\ Elems(response.results.AA) = {r \in computed : r.LevelSmallText = AA}
            /\ Elems(response.results.Other) = {r \in computed : r.LevelSmallText = Fail}

\* An unfiltered report with pairs of all three levels.
C4_Witness ==
    /\ Unfiltered
    /\ response.results.AAA # <<>>
    /\ response.results.AA # <<>>
    /\ response.results.Other # <<>>

\* The response was computed with the level filter AAA, AA or FAIL.
Filtered ==
    response.kind = "html" /\ response.Filter \in {AAA, AA, FAIL}

\* The small-text level a filter value asks for.
LevelOfFilter(filter) ==
    IF filter = FAIL THEN Fail ELSE filter

\* C5: with filter AAA, AA or FAIL the report holds exactly the computed pairs
\* of the requested small-text level, in the bucket of that level, and every
\* other bucket, Other included, is empty.
C5_FilteredBuckets ==
    Filtered =>
        LET computed == {ResultOf(p) : p \in ComputedPairs(TermOf(response))}
            wanted   == {r \in computed : r.LevelSmallText = LevelOfFilter(response.Filter)}
            res      == response.results
        IN  /\ response.Filter = AAA =>
                 Elems(res.AAA) = wanted /\ res.AA = <<>> /\ res.Fail = <<>> /\ res.Other = <<>>
            /\ response.Filter = AA =>
                 Elems(res.AA) = wanted /\ res.AAA = <<>> /\ res.Fail = <<>> /\ res.Other = <<>>
            /\ response.Filter = FAIL =>
                 Elems(res.Fail) = wanted /\ res.AAA = <<>> /\ res.AA = <<>> /\ res.Other = <<>>

\* A report filtered to FAIL that kept a pair and dropped a pair of another level.
C5_Witness ==
    /\ Filtered
    /\ response.Filter = FAIL
    /\ response.results.Fail # <<>>
    /\ \E p \in ComputedPairs(TermOf(response)) : ResultOf(p).LevelSmallText # Fail

\* What a level filter keeps.
FilterKeeps(filter, level) ==
    \/ filter = <<>>
    \/ filter = AAA /\ level = AAA
    \/ filter = AA /\ level = AA
    \/ filter = FAIL /\ level = Fail

\* C6: with a non-empty search term a pair is in the report only if the
\* lower-cased term is a substring of its lower-cased foreground or background
\* name, and a pair matching neither is skipped before its contrast is
\* computed (it is in no bucket and draws no diagnostic); with an empty term
\* no pair is skipped by search.
C6_SearchSkipsBeforeComputing ==
    response.kind = "html" =>
        LET term    == ToLower(response.Search)
            matched == {p \in AllPairs : Matches(term, p[1], p[2])}
            failing == {p \in AllPairs : contrastRatio(colors.Light[p[1]], colors.Dark[p[2]]).err}
        IN  /\ term # <<>> =>
                 /\ \A r \in AllResults(response.results) :
                       Matches(term, r.ForegroundName, r.BackgroundName)
                 /\ Len(response.logged) = Cardinality(matched \cap failing)
            /\ term = <<>> =>
                 /\ \A p \in AllPairs \ failing :
                       FilterKeeps(response.Filter, ResultOf(p).LevelSmallText)
                           => ResultOf(p) \in AllResults(response.results)
                 /\ Len(response.logged) = Cardinality(failing)

\* A searched report that kept a pair, and left out both a pair that would
\* have been reported and a pair that would have drawn a diagnostic.
C6_Witness ==
    /\ response.kind = "html"
    /\ ToLower(response.Search) # <<>>
    /\ response.Filter = <<>>
    /\ AllResults(response.results) # {}
    /\ \E p \in AllPairs :
          /\ ~Matches(ToLower(response.Search), p[1], p[2])
          /\ ~contrastRatio(colors.Light[p[1]], colors.Dark[p[2]]).err
    /\ \E p \in AllPairs :
          /\ ~Matches(ToLower(response.Search), p[1], p[2])
          /\ contrastRatio(colors.Light[p[1]], colors.Dark[p[2]]).err

\* Sorted cross-product order of two results.
PairBefore(r1, r2) ==
    \/ StringLess(r1.ForegroundName, r2.ForegroundName)
    \/ /\ r1.ForegroundName = r2.ForegroundName
       /\ StringLess(r1.BackgroundName, r2.BackgroundName)

InCrossProductOrder(bucket) ==
    \A i, j \in 1..Len(bucket) : i < j => PairBefore(bucket[i], bucket[j])

\* C7: within every bucket the results are in sorted cross-product order:
\* foreground names ascending, and background names ascending within one
\* foreground name.
C7_BucketsInSortedOrder ==
    HasReport =>
        /\ InCrossProductOrder(response.results.AAA)
        /\ InCrossProductOrder(response.results.AA)
        /\ InCrossProductOrder(response.results.Fail)
        /\ InCrossProductOrder(response.results.Other)

\* A bucket holding the whole cross product of two foreground and two
\* background names.
C7_Witness ==
    /\ HasReport
    /\ Len(response.results.Other) = 4
    /\ response.results.Other[1].ForegroundName # response.results.Other[3].ForegroundName
    /\ response.results.Other[1].BackgroundName # response.results.Other[2].BackgroundName

\* C8: computing the report twice on identical inputs yields identical
\* output, the same results in the same order.  Stated of the JSON variant,
\* whose inputs are its two fixed palettes: a request served after another
\* returns the list the earlier one returned.
C8_SameInputsSameOutput ==
    [][jsonResponse.served >= 1 => jsonResponse'.results = jsonResponse.results]_vars

\* The same claim of the report page of main.go: whatever order the two maps
\* are ranged over in, the engine returns the buckets of the response.
ReportIsOrderIndependent ==
    response.kind = "html" =>
        \A lightRange \in MapRange(colors.Light), darkRange \in MapRange(colors.Dark) :
            Report(colors, ToLower(response.Search), response.Filter, lightRange, darkRange).results
                = response.results

\* The palettes without their malformed entries.
WellFormedOnly(palette) ==
    [name \in {n \in DOMAIN palette : WellFormedHex(palette[n])} |-> palette[name]]

\* C9: a malformed hex entry never aborts the enumeration: no result uses a
\* malformed entry, and the buckets are those the same request yields on the
\* palettes with the malformed entries taken out.
C9_MalformedEntriesDropped ==
    /\ HasReport =>
          \A r \in AllResults(response.results) :
              WellFormedHex(r.ForegroundHex) /\ WellFormedHex(r.BackgroundHex)
    /\ response.kind = "html" =>
          \A lightRange \in MapRange(WellFormedOnly(colors.Light)),
              darkRange \in MapRange(WellFormedOnly(colors.Dark)) :
              Report([Light |-> WellFormedOnly(colors.Light), Dark |-> WellFormedOnly(colors.Dark)],
                     ToLower(response.Search), response.Filter, lightRange, darkRange).results
                  = response.results

\* The part of C9 the code keeps: entries relativeLuminance rejects are in no
\* result, and every other pair is reported as if they were not there.
RejectedEntriesDropped ==
    response.kind = "html" =>
        LET accepted(palette) ==
                [name \in {n \in DOMAIN palette : ~relativeLuminance(palette[n]).err}
                    |-> palette[name]]
        IN  \A lightRange \in MapRange(accepted(colors.Light)),
               darkRange \in MapRange(accepted(colors.Dark)) :
               Report([Light |-> accepted(colors.Light), Dark |-> accepted(colors.Dark)],
                      ToLower(response.Search), response.Filter, lightRange, darkRange).results
                   = response.results

\* C10: relativeLuminance returns an error for every input that, after one
\* optional leading '#' is stripped, is not exactly six hexadecimal digits,
\* and succeeds only for such strings.
C10_RejectsAllButSixHexDigits ==
    lumOut.done => (lumOut.err <=> ~WellFormedHex(hexIn))

\* C11: whenever relativeLuminance accepts a string, each of the three
\* channels it parsed is an integer from 0 to 255.
C11_ChannelsInByteRange ==
    (lumOut.done /\ ~lumOut.err) =>
        /\ lumOut.r \in 0..255
        /\ lumOut.g \in 0..255
        /\ lumOut.b \in 0..255

\* C12: contrastRatio is symmetric: for all valid colors a and b the ratio of
\* (a, b) is the ratio of (b, a), in the max/min implementation of main.go
\* and in the swap implementation of the variant.
C12_ContrastRatioSymmetric ==
    ratioOut.done =>
        /\ ~ratioOut.ab.err /\ ~ratioOut.swapAb.err
        /\ ratioOut.ab = ratioOut.ba
        /\ ratioOut.swapAb = ratioOut.swapBa

\* A pair whose foreground is the darker color, and whose ratio is not 1.
C12_Witness ==
    /\ ratioOut.done
    /\ ratioOut.fgLum.lum < ratioOut.bgLum.lum
    /\ ratioOut.ab.ratio > 1000
    /\ ratioOut.ba.ratio = ratioOut.ab.ratio

Black ==
    <<"#", "0", "0", "0", "0", "0", "0">>

White ==
    <<"#", "F", "F", "F", "F", "F", "F">>

\* C13: for any valid color x, contrastRatio(x, x) is 1.0 in both
\* implementations, so a pair of identical colors is classified Fail for
\* small text and for large text.
C13_IdenticalColorsRatioOne ==
    (ratioOut.done /\ pairIn.fg = pairIn.bg) =>
        /\ ratioOut.ab = [err |-> FALSE, ratio |-> 1000]
        /\ ratioOut.swapAb = [err |-> FALSE, ratio |-> 1000]
        /\ Len(ratioOut.result) = 1
        /\ ratioOut.result[1].LevelSmallText = Fail
        /\ ratioOut.result[1].LevelLargeText = Fail

\* A color that is neither black nor white, paired with itself.
C13_Witness ==
    /\ ratioOut.done
    /\ pairIn.fg = pairIn.bg
    /\ ratioOut.fgLum.lum > 0
    /\ ratioOut.fgLum.lum < 1000000
    /\ ratioOut.ab.ratio = 1000

\* C14: contrastRatio("#000000", "#FFFFFF") is exactly 21.0 before rounding,
\* no pair of valid colors has a larger ratio, and the black/white pair is
\* classified AAA for both text sizes with requiresFix false.
C14_BlackOnWhiteIsMaximum ==
    ratioOut.done =>
        /\ ratioOut.ab.ratio <= 21000
        /\ ratioOut.swapAb.ratio <= 21000
        /\ (pairIn.fg = Black /\ pairIn.bg = White) =>
              /\ ratioOut.ab = [err |-> FALSE, ratio |-> 21000]
              /\ ratioOut.swapAb = [err |-> FALSE, ratio |-> 21000]
              /\ Len(ratioOut.result) = 1
              /\ ratioOut.result[1].ContrastRatio = 2100
              /\ ratioOut.result[1].LevelSmallText = AAA
              /\ ratioOut.result[1].LevelLargeText = AAA
              /\ ~ratioOut.result[1].RequiresFix

\* Black on white, computed.
C14_Witness ==
    /\ ratioOut.done
    /\ pairIn.fg = Black
    /\ pairIn.bg = White
    /\ ratioOut.ab.ratio = 21000

\* C15: for every valid color relativeLuminance succeeds with a luminance
\* from 0 to 1.
C15_LuminanceInUnitInterval ==
    ratioOut.done =>
        /\ ~ratioOut.fgLum.err
        /\ ~ratioOut.bgLum.err
        /\ ratioOut.fgLum.lum >= 0 /\ ratioOut.fgLum.lum <= 1000000
        /\ ratioOut.bgLum.lum >= 0 /\ ratioOut.bgLum.lum <= 1000000

\* Both ends of the interval and a luminance strictly inside it.
C15_Witness ==
    /\ ratioOut.done
    /\ pairIn.fg = White
    /\ ratioOut.fgLum.lum = 1000000
    /\ ratioOut.bgLum.lum > 0
    /\ ratioOut.bgLum.lum < 1000000

\* The level of a ratio under the thresholds aaa and aa.
LevelAt(ratio, aaa, aa) ==
    IF ratio >= aaa THEN AAA ELSE IF ratio >= aa THEN AA ELSE Fail

\* C16: both levels of every result are decided by the ratio before
\* rounding; rounding to two decimals touches only the stored contrastRatio
\* (a ratio of 6.998 is stored as 7.00 and is AA for small text).
C16_LevelsFromUnroundedRatio ==
    HasReport =>
        \A r \in AllResults(response.results) :
            LET cr == contrastRatio(r.ForegroundHex, r.BackgroundHex)
            IN  /\ ~cr.err
                /\ r.ContrastRatio = (cr.ratio + 5) \div 10
                /\ r.LevelSmallText = LevelAt(cr.ratio, 7000, 4500)
                /\ r.LevelLargeText = LevelAt(cr.ratio, 4500, 3000)

\* A result stored as 7.00 whose unrounded ratio is below 7.
C16_Witness ==
    /\ HasReport
    /\ \E r \in AllResults(response.results) :
          /\ r.ContrastRatio = 700
          /\ contrastRatio(r.ForegroundHex, r.BackgroundHex).ratio < 7000
          /\ r.LevelSmallText = AA

\* Fail < AA < AAA
Rank(level) ==
    IF level = AAA THEN 2 ELSE IF level = AA THEN 1 ELSE 0

\* The ratios every 0.5 from 0 to the largest ratio; all thresholds are among them.
RatioGrid ==
    {k * 500 : k \in 0..(MaxRatio \div 500)}

\* C17: both level functions are monotonic: of two ratios the larger never
\* gets the lower level, with Fail < AA < AAA.
C17_LevelsMonotonic ==
    levelOut.done =>
        \A other \in RatioGrid \cup {ratioIn + 1} :
            /\ ratioIn <= other =>
                  /\ Rank(levelOut.small) <= Rank(complianceLevel(other))
                  /\ Rank(levelOut.large) <= Rank(complianceLevelLarge(other))
            /\ other <= ratioIn =>
                  /\ Rank(complianceLevel(other)) <= Rank(levelOut.small)
                  /\ Rank(complianceLevelLarge(other)) <= Rank(levelOut.large)

\* A ratio just below a threshold of both functions, classified.
C17_Witness ==
    /\ levelOut.done
    /\ ratioIn = 4499
    /\ Rank(levelOut.small) < Rank(complianceLevel(4500))
    /\ Rank(levelOut.large) < Rank(complianceLevelLarge(4500))
    /\ Rank(complianceLevel(3000)) <= Rank(levelOut.small)

\* No palette name, lower-cased, contains the term.
NoNameMatches(term) ==
    \A name \in DOMAIN colors.Light \cup DOMAIN colors.Dark :
        ~Contains(ToLower(name), term)

\* C18: a non-empty search term that matches no foreground name and no
\* background name yields a successful report page whose AAA, AA, Fail and
\* Other buckets are all empty, never an error response.
C18_NoMatchYieldsEmptyReport ==
    ( /\ request.path = "/"
      /\ response.kind # "none"
      /\ colors.readable
      /\ ToLower(request.search) # <<>>
      /\ NoNameMatches(ToLower(request.search)) ) =>
        /\ response.kind = "html"
        /\ response.status = 200
        /\ response.results = NoResults

\* A page searched for a term no name contains, over palettes that have a
\* pair with a computable contrast.
C18_Witness ==
    /\ request.path = "/"
    /\ response.kind = "html"
    /\ request.search = <<"z">>
    /\ NoNameMatches(<<"z">>)
    /\ ComputedPairs(<<>>) # {}
    /\ response.results = NoResults

\* C19: when colors.json cannot be loaded the request fails as a whole: both
\* handlers answer with the error response, which carries no report, and the
\* export writes no CSV content.
C19_LoadFailureFailsRequest ==
    (~colors.readable /\ response.kind # "none") =>
        /\ request.path \in {"/", "/download"}
        /\ response = ErrorResponse
        /\ response.status = 500
        /\ response.results = NoResults
        /\ response.body = EmptyFile
        /\ csvFile = EmptyFile

\* The export asked for while colors.json cannot be loaded.
C19_Witness ==
    /\ ~colors.readable
    /\ request.path = "/download"
    /\ response.kind = "error"
    /\ csvFile = EmptyFile

DecimalDigits ==
    {"0", "1", "2", "3", "4", "5", "6", "7", "8", "9"}

\* A field written with exactly two decimals: digits, a point, two digits.
TwoDecimals(field) ==
    /\ Len(field) >= 4
    /\ field[Len(field) - 2] = "."
    /\ \A i \in (1..Len(field)) \ {Len(field) - 2} : field[i] \in DecimalDigits

\* The number a string of decimal digits denotes.
RECURSIVE DecimalOf(_)
DecimalOf(digits) ==
    IF digits = <<>> THEN 0
    ELSE 10 * DecimalOf(SubSeq(digits, 1, Len(digits) - 1)) + DigitValue(digits[Len(digits)])

\* The value of a two-decimal field, in units of 1/100.
HundredthsOf(field) ==
    100 * DecimalOf(SubSeq(field, 1, Len(field) - 3))
        + DecimalOf(SubSeq(field, Len(field) - 1, Len(field)))

\* The row is the CSV record of the result.
RowOf(row, r) ==
    /\ Len(row) = 8
    /\ row[1] = r.ForegroundName
    /\ row[2] = r.ForegroundHex
    /\ row[3] = r.BackgroundName
    /\ row[4] = r.BackgroundHex
    /\ TwoDecimals(row[5])
    /\ HundredthsOf(row[5]) = r.ContrastRatio
    /\ row[6] = r.LevelSmallText
    /\ row[7] = r.LevelLargeText
    /\ row[8] = IF r.RequiresFix THEN <<"t", "r", "u", "e">> ELSE <<"f", "a", "l", "s", "e">>

\* Row order of the export: the AAA group, then AA, then Other (level Fail),
\* and sorted cross-product order within one group.
RowBefore(row1, row2) ==
    \/ Rank(row1[6]) > Rank(row2[6])
    \/ /\ row1[6] = row2[6]
       /\ \/ StringLess(row1[1], row2[1])
          \/ row1[1] = row2[1] /\ StringLess(row1[3], row2[3])

\* C20: the CSV export written by /download is the header row, then all AAA
\* rows, all AA rows and all Other rows, one row for every computed pair, each
\* group in sorted cross-product order, with the contrast ratio written with
\* exactly two decimals and requiresFix as the literal true or false.
C20_CsvRowsInGroupOrder ==
    response.kind = "csv" =>
        LET rows == csvFile.rows
        IN  /\ Len(rows) = 1 + Cardinality(ComputedPairs(<<>>))
            /\ rows[1] = CsvHeader
            /\ \A i \in 2..Len(rows) :
                  \E p \in ComputedPairs(<<>>) : RowOf(rows[i], ResultOf(p))
            /\ \A i, j \in 2..Len(rows) : i < j => RowBefore(rows[i], rows[j])

\* An export with an AAA row, an AA row and two Other rows.
C20_Witness ==
    /\ response.kind = "csv"
    /\ Len(csvFile.rows) = 5
    /\ csvFile.rows[2][6] = AAA
    /\ csvFile.rows[3][6] = AA
    /\ csvFile.rows[4][6] = Fail
    /\ csvFile.rows[5][6] = Fail
    /\ csvFile.rows[4][8] = <<"t", "r", "u", "e">>
    /\ csvFile.rows[2][8] = <<"f", "a", "l", "s", "e">>

\* C21: the CSV delivered by /download is complete: the file as it is served
\* holds the header row and one row for every computed result, that is, all
\* that the handler wrote has reached the file before it is served.
C21_ServedCsvIsComplete ==
    response.kind = "csv" =>
        /\ Len(response.body.rows)
              = 1 + Len(response.results.AAA) + Len(response.results.AA)
                  + Len(response.results.Other)
        /\ response.body.rows[1] = CsvHeader
        /\ response.body = csvFile

\* The response slot i would give had its request been served alone.
AloneResponse(i) ==
    LET h      == inflight[i]
        loaded == LoadColors(colors)
        light  == CHOOSE r \in MapRange(loaded.Light) : TRUE
        dark   == CHOOSE r \in MapRange(loaded.Dark) : TRUE
    IN  IF h.status # 200 THEN [results |-> NoResults, body |-> EmptyFile]
        ELSE IF h.path = "/"
        THEN [results |-> Report(loaded, ToLower(h.search), ToUpper(h.filter), light, dark).results,
              body    |-> EmptyFile]
        ELSE [results |-> Download(loaded, light, dark).results,
              body    |-> FileAfter(CsvRecords(Download(loaded, light, dark).results), FALSE)]

\* C22: concurrent requests are independent: under any interleaving of report
\* and export requests, two exports included, every finished request has the
\* response it would have had when served alone.
C22_ConcurrentRequestsIndependent ==
    \A i \in 1..MaxInflight :
        inflight[i].pc \in {"served", "done"} =>
            /\ inflight[i].results = AloneResponse(i).results
            /\ inflight[i].body = AloneResponse(i).body

\* The results of the report that require a fix.
Fixable ==
    {r \in AllResults(response.results) : r.RequiresFix}

\* C23: the "Show Fixable Combinations" button is on the page exactly when
\* the report has pairs that require a fix, and the modal it opens then lists
\* those pairs.
C23_ModalListsFixablePairs ==
    response.kind = "html" =>
        /\ response.page.button <=> Fixable # {}
        /\ Fixable # {} => Elems(response.page.modal) = Fixable

\* The pairs the enumeration reaches whose contrast computation fails.
FailingPairs(term) ==
    {p \in AllPairs :
        /\ term = <<>> \/ Matches(term, p[1], p[2])
        /\ contrastRatio(colors.Light[p[1]], colors.Dark[p[2]]).err}

\* The diagnostic of a pair names its two hex values.
DiagnosticOf(p) ==
    [fg |-> colors.Light[p[1]], bg |-> colors.Dark[p[2]]]

\* C24: every pair whose contrast computation returns an error draws one
\* logged diagnostic, and the enumeration goes on with the next pair: there
\* are as many diagnostics as such pairs, each is the diagnostic of one of
\* them, and each of them has its diagnostic.
C24_DiagnosticPerFailingPair ==
    HasReport =>
        LET failing == FailingPairs(TermOf(response))
        IN  /\ Len(response.logged) = Cardinality(failing)
            /\ \A p \in failing : DiagnosticOf(p) \in Elems(response.logged)
            /\ \A d \in Elems(response.logged) : \E p \in failing : d = DiagnosticOf(p)

\* A report with two diagnostics and a result of a foreground that comes
\* after the failing one.
C24_Witness ==
    /\ response.kind = "html"
    /\ Len(response.logged) = 2
    /\ \E p \in FailingPairs(TermOf(response)), r \in AllResults(response.results) :
          StringLess(p[1], r.ForegroundName)

\* The ratio part of C25 for every ratio: the large-text level is never below
\* the small-text level.
LargeNeverWorseThanSmall ==
    levelOut.done => Rank(levelOut.large) >= Rank(levelOut.small)

\* C25: in every result the large-text level is never worse than the
\* small-text level (Fail < AA < AAA), so requiresFix is true exactly when the
\* small-text level is Fail; every result of the AAA and AA buckets has
\* requiresFix false, every result of the Other and Fail buckets has it true.
C25_RequiresFixFollowsSmallLevel ==
    HasReport =>
        /\ \A r \in AllResults(response.results) :
              /\ Rank(r.LevelLargeText) >= Rank(r.LevelSmallText)
              /\ r.RequiresFix <=> r.LevelSmallText = Fail
        /\ \A r \in Elems(response.results.AAA) \cup Elems(response.results.AA) :
              ~r.RequiresFix
        /\ \A r \in Elems(response.results.Other) \cup Elems(response.results.Fail) :
              r.RequiresFix

\* An unfiltered report whose AA bucket has a pair that is AAA for large
\* text and whose Other bucket has a pair that is AA for large text.
C25_Witness ==
    /\ Unfiltered
    /\ \E r \in Elems(response.results.AA) : r.LevelLargeText = AAA /\ ~r.RequiresFix
    /\ \E r \in Elems(response.results.Other) : r.LevelLargeText = AA /\ r.RequiresFix

\* The buckets of an unfiltered response as one list.
Reported ==
    response.results.AAA \o response.results.AA \o response.results.Other

\* How many results of the list are of the pair p.
Occurrences(list, p) ==
    Cardinality({i \in 1..Len(list) :
                    list[i].ForegroundName = p[1] /\ list[i].BackgroundName = p[2]})

\* The pairs that pass the search term and whose two hex values are valid.
ValidPairs(term) ==
    {p \in AllPairs :
        /\ term = <<>> \/ Matches(term, p[1], p[2])
        /\ WellFormedHex(colors.Light[p[1]])
        /\ WellFormedHex(colors.Dark[p[2]])}

\* C26: with no filter the buckets partition the computed pairs: every pair
\* of the cross product whose two hex values are valid and that passes the
\* search term is exactly once in AAA, AA and Other together, and the sizes
\* of the three buckets add up to the number of such pairs.
C26_BucketsPartitionValidPairs ==
    Unfiltered =>
        /\ \A p \in ValidPairs(TermOf(response)) : Occurrences(Reported, p) = 1
        /\ Len(Reported) = Cardinality(ValidPairs(TermOf(response)))

\* The same partition of the pairs contrastRatio accepts, which the code keeps.
BucketsPartitionComputedPairs ==
    Unfiltered =>
        /\ \A p \in ComputedPairs(TermOf(response)) : Occurrences(Reported, p) = 1
        /\ Len(Reported) = Cardinality(ComputedPairs(TermOf(response)))

\* The buckets the report handler computes on the palettes of colors.json for
\* a lower-cased search term and an upper-cased filter.  The order in which
\* the maps are ranged over does not matter (ReportIsOrderIndependent).
ReportOf(search, filter) ==
    Report(colors, search, filter,
           CHOOSE r \in MapRange(colors.Light) : TRUE,
           CHOOSE r \in MapRange(colors.Dark) : TRUE).results

\* C27: the filtered and the unfiltered path agree: for the same palettes and
\* search term the AAA bucket under filter AAA is the unfiltered AAA bucket,
\* the AA bucket under filter AA is the unfiltered AA bucket, and the Fail
\* bucket under filter FAIL is the unfiltered Other bucket, element for
\* element in the same order.
C27_FilteredAgreesWithUnfiltered ==
    Filtered =>
        LET unfiltered == ReportOf(ToLower(response.Search), <<>>)
        IN  /\ response.Filter = AAA => response.results.AAA = unfiltered.AAA
            /\ response.Filter = AA => response.results.AA = unfiltered.AA
            /\ response.Filter = FAIL => response.results.Fail = unfiltered.Other

\* A report filtered to FAIL that kept two pairs, over palettes that also
\* have a pair of another level.
C27_Witness ==
    /\ Filtered
    /\ response.Filter = FAIL
    /\ Len(response.results.Fail) >= 2
    /\ response.results.Fail[1] # response.results.Fail[2]
    /\ Cardinality(ComputedPairs(TermOf(response))) > Len(response.results.Fail)

\* The filter a raw filter value stands for, letter case set aside; <<"?">>
\* for a value that is none of the four.
CanonicalFilter(raw) ==
    LET lower == ToLower(raw)
    IN  IF lower = <<>> THEN <<>>
        ELSE IF lower = <<"a", "a", "a">> THEN AAA
        ELSE IF lower = <<"a", "a">> THEN AA
        ELSE IF lower = <<"f", "a", "i", "l">> THEN FAIL
        ELSE <<"?">>

\* C28: a filter value that is none of the empty string, AAA, AA and FAIL,
\* letter case set aside, yields a successful report page with all four
\* buckets empty; any other value yields the page of the filter it spells,
\* whatever its letter case.
C28_UnknownFilterYieldsEmptyReport ==
    (request.path = "/" /\ response.kind # "none" /\ colors.readable) =>
        /\ response.kind = "html"
        /\ response.status = 200
        /\ CanonicalFilter(request.filter) = <<"?">> => response.results = NoResults
        /\ CanonicalFilter(request.filter) # <<"?">> =>
              response.results
                  = ReportOf(ToLower(request.search), CanonicalFilter(request.filter))

\* A page asked for with the filter X over palettes that have computable pairs.
C28_Witness ==
    /\ request.path = "/"
    /\ response.kind = "html"
    /\ request.filter = <<"X">>
    /\ request.search = <<>>
    /\ ComputedPairs(<<>>) # {}
    /\ response.results = NoResults

\* The export is the report `full`: same buckets, and rows that are its AAA,
\* AA and Other buckets in order.
ExportIsReport(full) ==
    /\ response.results = full
    /\ Len(csvFile.rows) = 1 + Len(full.AAA) + Len(full.AA) + Len(full.Other)
    /\ \A i \in 1..(Len(csvFile.rows) - 1) :
          RowOf(csvFile.rows[i + 1], (full.AAA \o full.AA \o full.Other)[i])

\* C29: the CSV export applies neither the search term nor the level filter:
\* whatever the parameters of the request, its rows are, in order, the AAA,
\* AA and Other buckets of the report with no search term and no filter.
C29_ExportIgnoresSearchAndFilter ==
    response.kind = "csv" => ExportIsReport(ReportOf(<<>>, <<>>))

\* An export asked for with search=B and filter=AAA that has a row of a pair
\* matching neither.
C29_Witness ==
    /\ response.kind = "csv"
    /\ request.search = <<"B">>
    /\ request.filter = <<"A", "A", "A">>
    /\ \E i \in 2..Len(csvFile.rows) :
          /\ ~Matches(<<"b">>, csvFile.rows[i][1], csvFile.rows[i][3])
          /\ csvFile.rows[i][6] # AAA

=============================================================================
